---- MODULE Spec2Model ----
(***************************************************************************)
(* The input pipeline of src/mjsynth.py: record source, record parser,     *)
(* preprocessor, the bucketing batcher (bucketed_input_pipeline) and the   *)
(* simple batcher (threaded_input_pipeline).                               *)
(*                                                                         *)
(* Three specifications share the module:                                  *)
(*   SpecParse     _parse_function, _get_input_filter and                  *)
(*                 _preprocess_image applied to one raw record;            *)
(*   Spec          the two entry points as they are written, from the      *)
(*                 call to the end of the batch stream or to the error     *)
(*                 that ends it;                                           *)
(*   SpecBucketed  the stages of bucketed_input_pipeline from the filter   *)
(*                 on (lines 59-83), fed with the seven-component          *)
(*                 elements their lambdas declare.                         *)
(***************************************************************************)
EXTENDS Integers, Sequences, FiniteSets, TLC

VARIABLES
    \* SpecParse: one call of _parse_function
    p_data,        \* the raw record handed to _parse_function
    p_args,        \* [width_threshold, length_threshold, training]
    p_ret,         \* None before the call, <<returned tuple>> after it
    p_keep,        \* the local keep_input when the call returns (None: never assigned)
    \* Spec: one call of an entry point
    call,          \* [entry, file_patterns, batch_size, num_threads]
    pc,            \* "call", "run", "end", "TypeError", "InvalidArgumentError"
    dataset,       \* the record sequence of _get_dataset
    cursor,        \* number of records handed to the parallel map so far
    inflight,      \* the parallel map's invocations, oldest first
    window,        \* the elements dataset.batch has collected for the next batch
    out,           \* the batches emitted so far
    \* SpecBucketed: the bucketing batcher's stages
    b_args,        \* [boundaries, batch_size, num_epoch, width_threshold, length_threshold]
    b_source,      \* the element sequence one pass of the map stage delivers
    b_pos,         \* elements of the current pass consumed so far
    b_epoch,       \* passes over b_source completed so far
    b_buckets,     \* bucket id -> the elements accumulated in that bucket
    b_shuffle,     \* shuffle buffer: batches waiting to be drawn
    b_out,         \* the batches emitted so far
    b_pc           \* "run", "exhausted" (input side finished), "end"

varsParse == <<p_data, p_args, p_ret, p_keep>>
varsRun == <<call, pc, dataset, cursor, inflight, window, out>>
varsBucketed == <<b_args, b_source, b_pos, b_epoch, b_buckets, b_shuffle, b_out, b_pc>>
vars == <<p_data, p_args, p_ret, p_keep,
          call, pc, dataset, cursor, inflight, window, out,
          b_args, b_source, b_pos, b_epoch, b_buckets, b_shuffle, b_out, b_pc>>

(***************************************************************************)
(* Bounds of the model.                                                    *)
(***************************************************************************)
MaxHeight == 2       \* rows of a decoded image (SpecParse)
MaxWidth == 2        \* columns of a decoded image (SpecParse)
MaxLength == 2       \* symbols of a label (SpecParse)
MaxPatterns == 2     \* length of file_patterns (Spec)
MaxBatchSize == 3    \* batch_size (Spec)
MaxThreads == 2      \* num_threads (Spec)
MaxRecords == 3      \* elements of one pass (SpecBucketed)
MaxBucketBatch == 2  \* batch_size (SpecBucketed)
MaxEpoch == 2        \* num_epoch, and the passes followed when it is unset

(***************************************************************************)
(* Python and tensor values.                                               *)
(***************************************************************************)
\* Python's None; a value that may be None is None or <<value>>.
None == << >>

Some(v) == <<v>>

Max(a, b) == IF a >= b THEN a ELSE b

RECURSIVE Concat(_)
\* [x for sub in seqs for x in sub]
Concat(seqs) ==
    IF seqs = << >> THEN << >> ELSE Head(seqs) \o Concat(Tail(seqs))

\* A dense tensor: element type, shape, and the elements in row-major order.
Tensor(dtype, shape, flat) == [dtype |-> dtype, shape |-> shape, flat |-> flat]

\* A Python bool used where a tensor is expected: a rank-0 bool.
PyBool(b) == Tensor("bool", << >>, <<b>>)

\* tf.less_equal(x, y) with y a Python number: elementwise, shape of x
less_equal(x, y) ==
    Tensor("bool", x.shape, [i \in DOMAIN x.flat |-> x.flat[i] <= y])

\* tf.logical_and(x, y) on tensors of one shape
logical_and(x, y) ==
    Tensor("bool", x.shape, [i \in DOMAIN x.flat |-> x.flat[i] /\ y.flat[i]])

\* tf.reshape(t, shape): same elements, new shape
reshape(t, shape) == Tensor(t.dtype, shape, t.flat)

\* tf.cast(t, dtype); every modelled value lies inside the target's range,
\* so only the element type changes
cast(t, dtype) == Tensor(dtype, t.shape, t.flat)

(***************************************************************************)
(* _get_input_filter (lines 125-156).                                      *)
(***************************************************************************)
\* The length test overwrites the width test instead of being and-ed to it.
GetInputFilterOverwrite(width, width_threshold, length, length_threshold) ==
    LET k1 == IF width_threshold # None
              THEN Some(less_equal(width, width_threshold[1]))
              ELSE None
        k2 == IF length_threshold # None
              THEN Some(less_equal(length, length_threshold[1]))
              ELSE k1
    IN  IF k2 = None THEN PyBool(TRUE) ELSE reshape(k2[1], << >>)

\* width, length: tensors; the thresholds: None or <<number>>.
_get_input_filter(width, width_threshold, length, length_threshold) ==
    LET \* keep_input after the width test (lines 139-142)
        k1 == IF width_threshold # None
              THEN Some(less_equal(width, width_threshold[1]))
              ELSE None
        \* keep_input after the length test (lines 144-149)
        k2 == IF length_threshold # None
              THEN LET length_filter == less_equal(length, length_threshold[1])
                   IN  IF k1 = None
                       THEN Some(length_filter)
                       ELSE Some(logical_and(k1[1], length_filter))
              ELSE k1
    IN  \* lines 151-156
        IF k2 = None THEN PyBool(TRUE) ELSE reshape(k2[1], << >>)

(***************************************************************************)
(* _preprocess_image (lines 211-220).  An image is a sequence of rows, a   *)
(* row a sequence of pixels, a pixel a sequence of channel values.         *)
(* A float is held exactly, as the integer number of FloatUnit-ths.        *)
(***************************************************************************)
UInt8Max == 255

FloatUnit == 2 * UInt8Max

\* tf.image.convert_image_dtype(image, tf.float32): uint8 v becomes v/255
convert_image_dtype(image) ==
    [r \in DOMAIN image |->
        [c \in DOMAIN image[r] |->
            [ch \in DOMAIN image[r][c] |->
                (image[r][c][ch] * FloatUnit) \div UInt8Max]]]

\* tf.subtract(image, 0.5)
subtract_half(image) ==
    [r \in DOMAIN image |->
        [c \in DOMAIN image[r] |->
            [ch \in DOMAIN image[r][c] |->
                image[r][c][ch] - (FloatUnit \div 2)]]]

\* s[begin : begin+size], size -1 meaning "to the end"
SliceSeq(s, begin, size) ==
    SubSeq(s, begin + 1, IF size = -1 THEN Len(s) ELSE begin + size)

\* tf.slice(image, begin, size) on a rank-3 image
slice(image, begin, size) ==
    LET rows == SliceSeq(image, begin[1], size[1])
    IN  [r \in DOMAIN rows |->
            LET cols == SliceSeq(rows[r], begin[2], size[2])
            IN  [c \in DOMAIN cols |-> SliceSeq(cols[c], begin[3], size[3])]]

\* tf.concat(values, 0)
concat0(values) == Concat(values)

\* The copy of the first row is appended below the image instead of above.
PreprocessImageAppend(image) ==
    LET scaled == subtract_half(convert_image_dtype(image))
        first_row == slice(scaled, <<0, 0, 0>>, <<1, -1, -1>>)
    IN  concat0(<<scaled, first_row>>)

_preprocess_image(image) ==
    LET scaled == subtract_half(convert_image_dtype(image))
        first_row == slice(scaled, <<0, 0, 0>>, <<1, -1, -1>>)
    IN  concat0(<<first_row, scaled>>)

\* [rows, columns, channels] of an image with at least one row and column
ImageShape(image) == <<Len(image), Len(image[1]), Len(image[1][1])>>

(***************************************************************************)
(* Sparse labels: tf.VarLenFeature, tf.serialize_sparse (line 194) and     *)
(* tf.deserialize_many_sparse (lines 82, 117).                             *)
(***************************************************************************)
SparseTensor(indices, values, dense_shape, dtype) ==
    [indices |-> indices, values |-> values, dense_shape |-> dense_shape,
     dtype |-> dtype]

\* What tf.VarLenFeature yields for a list of integers: position i holds v_i.
VarLenFeature(list) ==
    SparseTensor([i \in DOMAIN list |-> <<i - 1>>], list, <<Len(list)>>, "int64")

\* A tensor serialised to a string: type, shape and the row-major content.
TensorProto(dtype, shape, content) ==
    [proto |-> "TensorProto", dtype |-> dtype, shape |-> shape, content |-> content]

\* tf.serialize_sparse: the three serialised parts of one sparse tensor
serialize_sparse(sp) ==
    LET rank == Len(sp.dense_shape)
    IN  << TensorProto("int64", <<Len(sp.indices), rank>>, Concat(sp.indices)),
           TensorProto(sp.dtype, <<Len(sp.values)>>, sp.values),
           TensorProto("int64", <<rank>>, sp.dense_shape) >>

\* The rows of a serialised [n, rank] matrix.
Rows(proto) ==
    LET n == proto.shape[1]
        rank == proto.shape[2]
    IN  [i \in 1..n |-> SubSeq(proto.content, (i - 1) * rank + 1, i * rank)]

RECURSIVE MaxShape(_, _)
\* Elementwise maximum of the dense shapes of rows k..Len(serialized).
MaxShape(serialized, k) ==
    LET shape == serialized[k][3].content
    IN  IF k = Len(serialized) THEN shape
        ELSE LET rest == MaxShape(serialized, k + 1)
             IN  [d \in DOMAIN shape |-> Max(shape[d], rest[d])]

\* Every entry is filed under batch row 0.
DeserializeRowZero(serialized, dtype) ==
    SparseTensor(
        Concat([b \in DOMAIN serialized |->
                  LET rows == Rows(serialized[b][1])
                  IN  [i \in DOMAIN rows |-> <<0>> \o rows[i]]]),
        Concat([b \in DOMAIN serialized |-> serialized[b][2].content]),
        <<Len(serialized)>> \o MaxShape(serialized, 1),
        dtype)

\* tf.deserialize_many_sparse on a batch of serialised sparse tensors: row b
\* of the batch contributes its entries under the leading coordinate b.
deserialize_many_sparse(serialized, dtype) ==
    SparseTensor(
        Concat([b \in DOMAIN serialized |->
                  LET rows == Rows(serialized[b][1])
                  IN  [i \in DOMAIN rows |-> <<b - 1>> \o rows[i]]]),
        Concat([b \in DOMAIN serialized |-> serialized[b][2].content]),
        <<Len(serialized)>> \o MaxShape(serialized, 1),
        dtype)

\* tf.cast on a sparse tensor: the values change type (every modelled value
\* lies inside the target's range), the coordinates stay
cast_sparse(sp, dtype) ==
    SparseTensor(sp.indices, sp.values, sp.dense_shape, dtype)

(***************************************************************************)
(* _parse_function (lines 173-209).  A raw record is a serialised Example: *)
(* a function from the feature names it holds to their values.  An encoded *)
(* image is [height, width, gray], gray holding the pixels row by row.     *)
(***************************************************************************)
Example(encoded, labels, width, filename, text, length) ==
    [k \in {"image/encoded", "image/labels", "image/width",
            "image/filename", "text/string", "text/length"} |->
        CASE k = "image/encoded"  -> encoded
          [] k = "image/labels"   -> labels
          [] k = "image/width"    -> width
          [] k = "image/filename" -> filename
          [] k = "text/string"    -> text
          [] k = "text/length"    -> length]

\* The value of a feature, or the feature map's default_value (lines 176-188).
Feature(data, key, default_value) ==
    IF key \in DOMAIN data THEN data[key] ELSE default_value

\* tf.parse_single_example(data, feature_map)
parse_single_example(data) ==
    [k \in {"image/encoded", "image/labels", "image/width",
            "image/filename", "text/string", "text/length"} |->
        CASE k = "image/encoded"  -> Feature(data, k, "")
          [] k = "image/labels"   -> VarLenFeature(Feature(data, k, << >>))
          [] k = "image/width"    -> Tensor("int64", <<1>>, <<Feature(data, k, 1)>>)
          [] k = "image/filename" -> Feature(data, k, "")
          [] k = "text/string"    -> Feature(data, k, "")
          [] k = "text/length"    -> Tensor("int64", <<1>>, <<Feature(data, k, 1)>>)]

\* tf.image.decode_jpeg(encoded, channels=1): [height, width, 1]
decode_jpeg(encoded) ==
    [r \in 1..encoded.height |->
        [c \in 1..encoded.width |->
            <<encoded.gray[(r - 1) * encoded.width + c]>>]]

\* The locals of _parse_function when it returns.
ParseLocals(data, width_threshold, length_threshold, training) ==
    LET features == parse_single_example(data)
        width == cast(features["image/width"], "int32")
        length == features["text/length"]
    IN  [image      |-> _preprocess_image(decode_jpeg(features["image/encoded"])),
         width      |-> width,
         label      |-> serialize_sparse(features["image/labels"]),
         length     |-> length,
         text       |-> features["text/string"],
         filename   |-> features["image/filename"],
         \* assigned on the training branch only (line 201)
         keep_input |-> IF training
                        THEN Some(_get_input_filter(width, width_threshold,
                                                    length, length_threshold))
                        ELSE None]

\* The tuple _parse_function returns: six components on either branch
\* (lines 204 and 207); keep_input is not among them.
_parse_function(data, width_threshold, length_threshold, training) ==
    LET l == ParseLocals(data, width_threshold, length_threshold, training)
    IN  IF training
        THEN <<l.image, l.width, l.label, l.length, l.text, l.filename>>
        ELSE <<l.image, l.width, l.label, l.length, l.text, l.filename>>

(***************************************************************************)
(* SpecParse: _parse_function called once on a raw record.                 *)
(***************************************************************************)
num_classes == 62

PixelValues == {0, UInt8Max}

\* Label lists used by SpecParse: the first and the last class.
LabelLists ==
    UNION {[1..n -> {0, num_classes - 1}] : n \in 1..MaxLength}

EncodedImages ==
    UNION {[height : {h}, width : {w}, gray : [1..(h * w) -> PixelValues]] :
           <<h, w>> \in (1..MaxHeight) \X (1..MaxWidth)}

\* A threshold is unset or lies inside the range of the values it is compared to.
WidthThresholds == {None} \cup {Some(t) : t \in 1..MaxWidth}

LengthThresholds == {None} \cup {Some(t) : t \in 1..MaxLength}

IdleParse ==
    /\ p_data = None
    /\ p_args = None
    /\ p_ret = None
    /\ p_keep = None

IdleRun ==
    /\ call = None
    /\ pc = "idle"
    /\ dataset = << >>
    /\ cursor = 0
    /\ inflight = << >>
    /\ window = << >>
    /\ out = << >>

IdleBucketed ==
    /\ b_args = None
    /\ b_source = << >>
    /\ b_pos = 0
    /\ b_epoch = 0
    /\ b_buckets = << >>
    /\ b_shuffle = << >>
    /\ b_out = << >>
    /\ b_pc = "idle"

InitParse ==
    /\ \E enc \in EncodedImages, labels \in LabelLists :
          p_data = Example(enc, labels, enc.width, "f.jpg", "text", Len(labels))
    /\ \E wt \in WidthThresholds, lt \in LengthThresholds, training \in BOOLEAN :
          p_args = [width_threshold |-> wt, length_threshold |-> lt,
                    training |-> training]
    /\ p_ret = None
    /\ p_keep = None
    /\ IdleRun
    /\ IdleBucketed

\* The call _parse_function(data, width_threshold, length_threshold, training).
ParseRecord ==
    /\ p_ret = None
    /\ p_args # None
    /\ p_ret' = Some(_parse_function(p_data, p_args.width_threshold,
                                     p_args.length_threshold, p_args.training))
    /\ p_keep' = ParseLocals(p_data, p_args.width_threshold,
                             p_args.length_threshold, p_args.training).keep_input
    /\ UNCHANGED <<p_data, p_args>>
    /\ UNCHANGED varsRun
    /\ UNCHANGED varsBucketed

NextParse == ParseRecord

SpecParse == InitParse /\ [][NextParse]_vars

(***************************************************************************)
(* _get_dataset (lines 158-170).  A path is [dir, stem, ext]; a pattern is *)
(* a path whose stem or ext may be the wildcard "*".                       *)
(***************************************************************************)
\* The record files on disk, in the order tf.gfile.Glob lists them.
Files ==
    << [dir |-> "data", stem |-> "a", ext |-> "tfrecord"],
       [dir |-> "data", stem |-> "b", ext |-> "tfrecord"],
       [dir |-> "data", stem |-> "c", ext |-> "tfrecord"] >>

\* A record of one text line: a one-row image of `width` columns.
Record(text, width, labels) ==
    Example([height |-> 1, width |-> width, gray |-> [c \in 1..width |-> 0]],
            labels, width, text, text, Len(labels))

\* The records each file holds.
FileRecords(file) ==
    CASE file.stem = "a" -> << Record("r1", 2, <<0>>),
                               Record("r2", 2, <<5, 61>>),
                               Record("r3", 3, <<7, 7, 7>>) >>
      [] file.stem = "b" -> << Record("r4", 3, <<61>>),
                               Record("r5", 3, <<1, 2>>) >>
      [] OTHER -> << >>

\* os.path.join(base_dir, file_pattern)
path_join(base_dir, file_pattern) ==
    [dir |-> base_dir, stem |-> file_pattern.stem, ext |-> file_pattern.ext]

\* tf.gfile.Glob(pattern): the matching files, in directory order
Glob(pattern) ==
    SelectSeq(Files, LAMBDA f :
        /\ f.dir = pattern.dir
        /\ pattern.stem \in {"*", f.stem}
        /\ pattern.ext \in {"*", f.ext})

\* tf.data.TFRecordDataset(data_files): the files' records, file after file
TFRecordDataset(data_files) ==
    Concat([i \in DOMAIN data_files |-> FileRecords(data_files[i])])

_get_dataset(base_dir, file_patterns) ==
    LET \* list of lists (lines 162-163)
        lists == [i \in DOMAIN file_patterns |->
                     Glob(path_join(base_dir, file_patterns[i]))]
        \* flatten (line 165)
        data_files == Concat(lists)
    IN  TFRecordDataset(data_files)

(***************************************************************************)
(* Spec: the entry points as written.  dataset.map(..., num_parallel_calls)*)
(* runs up to num_threads calls of _parse_function at once and delivers    *)
(* their results in input order; dataset.batch stacks batch_size elements  *)
(* (fewer at the end of the input) and needs them to have one shape.       *)
(***************************************************************************)
\* Parameters of the lambdas applied to the parsed element.
FilterLambdaArity == 7

BatchLambdaArity == 6

\* Components of the element the map stage yields: those of the tuple
\* _parse_function returns.
ElementArity(training) ==
    Len(_parse_function(Record("trace", 1, <<0>>), None, None, training))

Patterns ==
    { [stem |-> "*", ext |-> "tfrecord"],
      [stem |-> "a", ext |-> "*"],
      [stem |-> "*", ext |-> "none"] }

PatternLists == UNION {[1..n -> Patterns] : n \in 0..MaxPatterns}

InitRun ==
    /\ \E entry \in {"bucketed", "threaded"}, file_patterns \in PatternLists,
          batch_size \in 1..MaxBatchSize, num_threads \in 1..MaxThreads :
          call = [entry |-> entry, base_dir |-> "data",
                  file_patterns |-> file_patterns,
                  batch_size |-> batch_size, num_threads |-> num_threads]
    /\ pc = "call"
    /\ dataset = << >>
    /\ cursor = 0
    /\ inflight = << >>
    /\ window = << >>
    /\ out = << >>
    /\ IdleParse
    /\ IdleBucketed

\* bucketed_input_pipeline(...) as written: the map stage yields the six
\* components _parse_function returns, and the filter stage's lambda (lines
\* 59-66) is applied to them with seven parameters.
bucketed_input_pipeline ==
    /\ pc = "call"
    /\ call.entry = "bucketed"
    /\ dataset' = _get_dataset(call.base_dir, call.file_patterns)
    /\ ElementArity(TRUE) # FilterLambdaArity
    /\ pc' = "TypeError"
    /\ UNCHANGED <<call, cursor, inflight, window, out>>
    /\ UNCHANGED varsParse
    /\ UNCHANGED varsBucketed

\* threaded_input_pipeline(...): lines 93-120
threaded_input_pipeline ==
    /\ pc = "call"
    /\ call.entry = "threaded"
    /\ dataset' = _get_dataset(call.base_dir, call.file_patterns)
    /\ pc' = IF ElementArity(FALSE) = BatchLambdaArity THEN "run" ELSE "TypeError"
    /\ UNCHANGED <<call, cursor, inflight, window, out>>
    /\ UNCHANGED varsParse
    /\ UNCHANGED varsBucketed

\* The parallel map takes the next record (lines 101-106).
MapStart ==
    /\ pc = "run"
    /\ cursor < Len(dataset)
    /\ Len(inflight) < call.num_threads
    /\ inflight' = Append(inflight, [data |-> dataset[cursor + 1], result |-> None])
    /\ cursor' = cursor + 1
    /\ UNCHANGED <<call, pc, dataset, window, out>>
    /\ UNCHANGED varsParse
    /\ UNCHANGED varsBucketed

\* One of the running calls of _parse_function returns.
MapFinish ==
    /\ pc = "run"
    /\ \E k \in DOMAIN inflight :
          /\ inflight[k].result = None
          /\ inflight' = [inflight EXCEPT
                 ![k].result = Some(_parse_function(inflight[k].data, None, None, FALSE))]
    /\ UNCHANGED <<call, pc, dataset, cursor, window, out>>
    /\ UNCHANGED varsParse
    /\ UNCHANGED varsBucketed

\* dataset.batch takes the next element of the map: the oldest call's result.
MapDeliver ==
    /\ pc = "run"
    /\ Len(window) < call.batch_size
    /\ inflight # << >>
    /\ Head(inflight).result # None
    /\ window' = Append(window, Head(inflight).result[1])
    /\ inflight' = Tail(inflight)
    /\ UNCHANGED <<call, pc, dataset, cursor, out>>
    /\ UNCHANGED varsParse
    /\ UNCHANGED varsBucketed

\* Shape of component k of a parsed element.
ComponentShape(k, v) ==
    CASE k = 1 -> ImageShape(v)
      [] k \in {2, 4} -> v.shape
      [] k = 3 -> <<Len(v)>>
      [] OTHER -> << >>

\* dataset.batch can stack the elements: each component has one shape.
Stackable(elements) ==
    \A k \in 1..Len(elements[1]) : \A i, j \in DOMAIN elements :
        ComponentShape(k, elements[i][k]) = ComponentShape(k, elements[j][k])

\* dataset.batch: component k of the batch holds component k of each element.
Stack(elements) ==
    [k \in 1..Len(elements[1]) |-> [i \in DOMAIN elements |-> elements[i][k]]]

\* The lambda of lines 112-118 (and 77-83) on the first six components.
DeserializeLabels(batch) ==
    [batch EXCEPT ![3] = cast_sparse(deserialize_many_sparse(batch[3], "int64"), "int32")]

\* dataset.batch(batch_size) has a batch (line 110), mapped by lines 112-118.
EmitBatch ==
    /\ pc = "run"
    /\ window # << >>
    /\ \/ Len(window) = call.batch_size
       \/ cursor = Len(dataset) /\ inflight = << >>
    /\ IF Stackable(window)
       THEN /\ out' = Append(out, DeserializeLabels(Stack(window)))
            /\ pc' = pc
       ELSE /\ out' = out
            /\ pc' = "InvalidArgumentError"
    /\ window' = << >>
    /\ UNCHANGED <<call, dataset, cursor, inflight>>
    /\ UNCHANGED varsParse
    /\ UNCHANGED varsBucketed

\* The input is exhausted and nothing is left to batch.
EndOfSequence ==
    /\ pc = "run"
    /\ cursor = Len(dataset)
    /\ inflight = << >>
    /\ window = << >>
    /\ pc' = "end"
    /\ UNCHANGED <<call, dataset, cursor, inflight, window, out>>
    /\ UNCHANGED varsParse
    /\ UNCHANGED varsBucketed

Init == InitRun

Next ==
    \/ bucketed_input_pipeline
    \/ threaded_input_pipeline
    \/ MapStart
    \/ MapFinish
    \/ MapDeliver
    \/ EmitBatch
    \/ EndOfSequence

Spec == Init /\ [][Next]_vars

(***************************************************************************)
(* SpecBucketed: the stages of bucketed_input_pipeline from the filter on  *)
(* (lines 59-83).  Their lambdas take seven components: the six that       *)
(* _parse_function returns and get_input, for which the parser's only      *)
(* candidate is the keep decision it computes on line 201.  An image is    *)
(* held by its shape [rows, columns, channels]: batching reads nothing     *)
(* else of it.                                                             *)
(***************************************************************************)
Int32Max == 2147483647

Int32Min == (-Int32Max) - 1

\* The predicate of the filter stage (lines 59-66): get_input != None,
\* Python's comparison of the component with None.
FilterPredicate(element) == element[7] # None

\* _element_length_fn (lines 122-123)
_element_length_fn(element) == element[2]

\* The boundary tests are taken as min < length <= max.
ElementToBucketIdShifted(element, boundaries) ==
    LET seq_length == _element_length_fn(element).flat[1]
        buckets_min == <<Int32Min>> \o boundaries
        buckets_max == boundaries \o <<Int32Max>>
        hits == {i \in DOMAIN buckets_min :
                    buckets_min[i] < seq_length /\ seq_length <= buckets_max[i]}
    IN  (CHOOSE i \in hits : \A j \in hits : i <= j) - 1

\* bucket_by_sequence_length's element_to_bucket_id: the first bucket whose
\* range [min, max) holds the element's length (lines 68-72).
ElementToBucketId(element, boundaries) ==
    LET seq_length == _element_length_fn(element).flat[1]
        buckets_min == <<Int32Min>> \o boundaries
        buckets_max == boundaries \o <<Int32Max>>
        hits == {i \in DOMAIN buckets_min :
                    buckets_min[i] <= seq_length /\ seq_length < buckets_max[i]}
    IN  (CHOOSE i \in hits : \A j \in hits : i <= j) - 1

RECURSIVE MaxDims(_, _)
\* Elementwise maximum of the image shapes of elements k..Len(elements).
MaxDims(elements, k) ==
    LET shape == elements[k][1]
    IN  IF k = Len(elements) THEN shape
        ELSE LET rest == MaxDims(elements, k + 1)
             IN  [d \in DOMAIN shape |-> Max(shape[d], rest[d])]

\* Every image is padded to the shape of the batch's first image.
PaddedImagesToFirst(elements) == <<Len(elements)>> \o elements[1][1]

\* The image component of padded_batch: every image padded to the largest
\* extent found in the batch, [batch, rows, columns, channels].
PaddedImages(elements) == <<Len(elements)>> \o MaxDims(elements, 1)

\* The batch bucket_by_sequence_length makes of a bucket's elements, mapped
\* by the lambda of lines 77-83.
PaddedBatch(elements) ==
    LET stacked == [k \in 1..Len(elements[1]) |->
                       IF k = 1 THEN PaddedImages(elements)
                       ELSE [i \in DOMAIN elements |-> elements[i][k]]]
    IN  [stacked EXCEPT
            ![3] = cast_sparse(deserialize_many_sparse(stacked[3], "int64"), "int32")]

\* One more pass is made although `done` passes already reach num_epoch.
MorePassesOffByOne(num_epoch, done) ==
    IF num_epoch = None THEN TRUE ELSE done <= num_epoch[1]

\* shuffle_and_repeat(count=num_epoch): another pass over the input follows
\* the `done` passes made so far (lines 74-75).
MorePasses(num_epoch, done) ==
    IF num_epoch = None THEN TRUE ELSE done < num_epoch[1]

\* The examples of SpecBucketed: image width and label list.
Kinds ==
    { [width |-> 50, labels |-> <<5, 61>>],
      [width |-> 96, labels |-> <<7>>] }

\* Boundary lists: a bucket per example kind with empty buckets between, and
\* one boundary above every width.
BoundaryLists == { <<32, 64, 96>>, <<97>> }

\* (width_threshold, length_threshold): unset, or excluding one of the kinds.
ThresholdPairs == { <<None, None>>, <<Some(50), None>>, <<None, Some(1)>> }

\* The seven-component element of the i-th record of a pass: the locals
\* image, width, label, length, text, filename of _parse_function on its
\* training branch, and the keep decision of line 201 for get_input.
Element(i, kind, width_threshold, length_threshold) ==
    LET l == ParseLocals(Record(ToString(i), kind.width, kind.labels),
                         width_threshold, length_threshold, TRUE)
    IN  <<ImageShape(l.image), l.width, l.label, l.length, l.text, l.filename,
          l.keep_input[1]>>

InitBucketed ==
    /\ \E boundaries \in BoundaryLists, batch_size \in 1..MaxBucketBatch,
          num_epoch \in {None} \cup {Some(k) : k \in 1..MaxEpoch},
          thresholds \in ThresholdPairs :
          LET width_threshold == thresholds[1]
              length_threshold == thresholds[2]
          IN
          /\ b_args = [boundaries |-> boundaries, batch_size |-> batch_size,
                       num_epoch |-> num_epoch,
                       width_threshold |-> width_threshold,
                       length_threshold |-> length_threshold]
          /\ \E n \in 0..MaxRecords : \E kinds \in [1..n -> Kinds] :
                b_source = [i \in 1..n |->
                              Element(i, kinds[i], width_threshold, length_threshold)]
          /\ b_buckets = [k \in 0..Len(boundaries) |-> << >>]
    /\ b_pos = 0
    /\ b_epoch = 0
    /\ b_shuffle = << >>
    /\ b_out = << >>
    /\ b_pc = "run"
    /\ IdleParse
    /\ IdleRun

\* The shuffle buffer holds buffer_size = batch_size batches (line 74).
ShuffleHasRoom == Len(b_shuffle) < b_args.batch_size

\* A batch of bucket k, formed in the current pass.
FormedBatch(k, elements) ==
    [epoch |-> b_epoch, bucket |-> k, batch |-> PaddedBatch(elements)]

\* The next element of the pass goes through the filter and into its bucket;
\* a bucket that reaches batch_size elements is emitted as a batch.
Consume ==
    /\ b_pc = "run"
    /\ ShuffleHasRoom
    /\ b_pos < Len(b_source)
    /\ b_pos' = b_pos + 1
    /\ LET element == b_source[b_pos + 1]
           k == ElementToBucketId(element, b_args.boundaries)
           grown == Append(b_buckets[k], element)
       IN  IF ~FilterPredicate(element)
           THEN UNCHANGED <<b_buckets, b_shuffle>>
           ELSE IF Len(grown) = b_args.batch_size
                THEN /\ b_buckets' = [b_buckets EXCEPT ![k] = << >>]
                     /\ b_shuffle' = Append(b_shuffle, FormedBatch(k, grown))
                ELSE /\ b_buckets' = [b_buckets EXCEPT ![k] = grown]
                     /\ b_shuffle' = b_shuffle
    /\ UNCHANGED <<b_args, b_source, b_epoch, b_out, b_pc>>
    /\ UNCHANGED varsParse
    /\ UNCHANGED varsRun

\* The elements left in a bucket at the end of the pass are dropped.
FlushDrop ==
    /\ b_pc = "run"
    /\ ShuffleHasRoom
    /\ b_pos = Len(b_source)
    /\ \E k \in DOMAIN b_buckets :
          /\ b_buckets[k] # << >>
          /\ \A j \in DOMAIN b_buckets : j < k => b_buckets[j] = << >>
          /\ b_buckets' = [b_buckets EXCEPT ![k] = << >>]
          /\ b_shuffle' = b_shuffle
    /\ UNCHANGED <<b_args, b_source, b_pos, b_epoch, b_out, b_pc>>
    /\ UNCHANGED varsParse
    /\ UNCHANGED varsRun

\* At the end of the pass the buckets still holding elements are emitted as
\* smaller batches, lowest bucket first.
Flush ==
    /\ b_pc = "run"
    /\ ShuffleHasRoom
    /\ b_pos = Len(b_source)
    /\ \E k \in DOMAIN b_buckets :
          /\ b_buckets[k] # << >>
          /\ \A j \in DOMAIN b_buckets : j < k => b_buckets[j] = << >>
          /\ b_buckets' = [b_buckets EXCEPT ![k] = << >>]
          /\ b_shuffle' = Append(b_shuffle, FormedBatch(k, b_buckets[k]))
    /\ UNCHANGED <<b_args, b_source, b_pos, b_epoch, b_out, b_pc>>
    /\ UNCHANGED varsParse
    /\ UNCHANGED varsRun

\* The pass is over and every bucket is empty.
PassDone ==
    /\ b_pos = Len(b_source)
    /\ \A k \in DOMAIN b_buckets : b_buckets[k] = << >>

\* shuffle_and_repeat starts the next pass over the input.  With num_epoch
\* unset the passes never end; the model follows MaxEpoch repetitions.
Repeat ==
    /\ b_pc = "run"
    /\ PassDone
    /\ b_source # << >>
    /\ MorePasses(b_args.num_epoch, b_epoch + 1)
    /\ b_args.num_epoch = None => b_epoch < MaxEpoch
    /\ b_epoch' = b_epoch + 1
    /\ b_pos' = 0
    /\ UNCHANGED <<b_args, b_source, b_buckets, b_shuffle, b_out, b_pc>>
    /\ UNCHANGED varsParse
    /\ UNCHANGED varsRun

\* The last pass is over, or the first pass found the input empty.
Exhaust ==
    /\ b_pc = "run"
    /\ PassDone
    /\ b_source = << >> \/ ~MorePasses(b_args.num_epoch, b_epoch + 1)
    /\ b_epoch' = b_epoch + 1
    /\ b_pc' = "exhausted"
    /\ UNCHANGED <<b_args, b_source, b_pos, b_buckets, b_shuffle, b_out>>
    /\ UNCHANGED varsParse
    /\ UNCHANGED varsRun

\* A batch is drawn at random from the buffer's batches of the oldest pass,
\* once the buffer is full or the input side has finished.
Draw ==
    /\ b_pc \in {"run", "exhausted"}
    /\ b_shuffle # << >>
    /\ ~ShuffleHasRoom \/ b_pc = "exhausted"
    /\ \E i \in DOMAIN b_shuffle :
          /\ \A j \in DOMAIN b_shuffle : b_shuffle[i].epoch <= b_shuffle[j].epoch
          /\ b_out' = Append(b_out, b_shuffle[i])
          /\ b_shuffle' = SubSeq(b_shuffle, 1, i - 1)
                            \o SubSeq(b_shuffle, i + 1, Len(b_shuffle))
    /\ UNCHANGED <<b_args, b_source, b_pos, b_epoch, b_buckets, b_pc>>
    /\ UNCHANGED varsParse
    /\ UNCHANGED varsRun

\* The batch stream ends.
EndOfBatches ==
    /\ b_pc = "exhausted"
    /\ b_shuffle = << >>
    /\ b_pc' = "end"
    /\ UNCHANGED <<b_args, b_source, b_pos, b_epoch, b_buckets, b_shuffle, b_out>>
    /\ UNCHANGED varsParse
    /\ UNCHANGED varsRun

NextBucketed ==
    \/ Consume
    \/ Flush
    \/ Repeat
    \/ Exhaust
    \/ Draw
    \/ EndOfBatches

SpecBucketed == InitBucketed /\ [][NextBucketed]_vars

(***************************************************************************)
(* Claims settled under SpecParse.                                         *)
(***************************************************************************)
\* C2: on the training branch, keep_input is one scalar whose value is
\* (width_threshold unset or width <= width_threshold) and
\* (length_threshold unset or length <= length_threshold); with neither
\* threshold set it is True.
C2_KeepDecision ==
    (p_ret # None /\ p_args.training) =>
        LET w == p_data["image/width"]
            l == p_data["text/length"]
            wt == p_args.width_threshold
            lt == p_args.length_threshold
        IN  /\ p_keep # None
            /\ p_keep[1].shape = << >>
            /\ Len(p_keep[1].flat) = 1
            /\ p_keep[1].flat[1] = ((wt = None \/ w <= wt[1]) /\ (lt = None \/ l <= lt[1]))
            /\ (wt = None /\ lt = None) => p_keep[1].flat[1] = TRUE

\* C2 witness: both thresholds set, the width passes, the length does not,
\* and the decision is False.
C2_Witness ==
    /\ p_ret # None
    /\ p_args.training
    /\ p_args.width_threshold # None
    /\ p_args.length_threshold # None
    /\ p_data["image/width"] <= p_args.width_threshold[1]
    /\ p_data["text/length"] > p_args.length_threshold[1]
    /\ p_keep = Some(PyBool(FALSE))

Texts(records) == [i \in DOMAIN records |-> records[i]["text/string"]]

\* C4: threaded_input_pipeline over n records with batch size B never stops
\* on an error; the batches emitted so far are the consecutive chunks of B
\* records of the source, in source order; and when the stream ends there
\* are ceil(n/B) of them, all of size B except possibly the last, together
\* holding every record once.
C4_SimpleBatcher ==
    (call # None /\ call.entry = "threaded") =>
        LET B == call.batch_size
            n == Len(dataset)
            emitted == Concat([j \in DOMAIN out |-> out[j][5]])
        IN  /\ pc \notin {"TypeError", "InvalidArgumentError"}
            /\ Len(emitted) <= n
            /\ emitted = SubSeq(Texts(dataset), 1, Len(emitted))
            /\ \A j \in DOMAIN out : j < Len(out) => Len(out[j][5]) = B
            /\ pc = "end" =>
                  /\ emitted = Texts(dataset)
                  /\ Len(out) = (n + B - 1) \div B
                  /\ \A j \in DOMAIN out :
                        Len(out[j][5]) = IF j < Len(out) \/ n % B = 0 THEN B ELSE n % B

\* C8: the record sequence is the records of the matched files, pattern
\* after pattern and match after match; when no pattern matches a file it
\* is empty, the batch stream is empty, and no error is reached, whichever
\* entry point was called.
C8_EmptyGlob ==
    (call # None /\ pc # "call") =>
        LET matched == Concat([i \in DOMAIN call.file_patterns |->
                          SelectSeq(Files, LAMBDA f :
                              /\ call.file_patterns[i].stem \in {"*", f.stem}
                              /\ call.file_patterns[i].ext \in {"*", f.ext})])
        IN  /\ dataset = Concat([i \in DOMAIN matched |-> FileRecords(matched[i])])
            /\ matched = << >> =>
                  /\ dataset = << >>
                  /\ out = << >>
                  /\ pc \notin {"TypeError", "InvalidArgumentError"}

\* The raw record whose text is t.
RecordOfText(t) ==
    CHOOSE r \in {FileRecords(Files[i])[k] :
                    <<i, k>> \in {<<i, k>> \in (DOMAIN Files) \X (1..3) :
                                    k <= Len(FileRecords(Files[i]))}} :
        r["text/string"] = t

\* C9: in every emitted batch, the entries of the batch's sparse label whose
\* leading coordinate is row b are, in order, exactly the (position, value)
\* pairs of the label list of the b-th example of the batch, and no
\* coordinate (row, position) occurs twice.
C9_LabelRoundTrip ==
    \A j \in DOMAIN out :
        LET sp == out[j][3]
            texts == out[j][5]
        IN  /\ Len(sp.indices) = Len(sp.values)
            /\ \A x, y \in DOMAIN sp.indices : x # y => sp.indices[x] # sp.indices[y]
            /\ \A x \in DOMAIN sp.indices : sp.indices[x][1] \in 0..(Len(texts) - 1)
            /\ \A b \in DOMAIN texts :
                  LET labels == RecordOfText(texts[b])["image/labels"]
                      mine == SelectSeq([x \in DOMAIN sp.indices |->
                                            <<sp.indices[x], sp.values[x]>>],
                                        LAMBDA e : e[1][1] = b - 1)
                  IN  [x \in DOMAIN mine |-> <<mine[x][1][2], mine[x][2]>>]
                        = [i \in DOMAIN labels |-> <<i - 1, labels[i]>>]

\* C9 witness: a batch of two examples whose labels have one and two
\* symbols has been emitted.
C9_Witness ==
    \E j \in DOMAIN out :
        /\ out[j][5] = <<"r1", "r2">>
        /\ Len(out[j][3].values) = 3

(***************************************************************************)
(* Claims settled under SpecBucketed.                                      *)
(***************************************************************************)
\* The batches formed so far: those waiting in the shuffle buffer, then
\* those emitted.
FormedBatches == b_shuffle \o b_out

\* The element of the pass whose text is t.
SourceOfText(t) == CHOOSE e \in {b_source[i] : i \in DOMAIN b_source} : e[5] = t

\* The width w lies in the range of bucket k: b_{k-1} <= w < b_k, open
\* below the first boundary and at or above the last.
InBucketRange(w, k) ==
    LET b == b_args.boundaries
    IN  /\ k = 0 \/ b[k] <= w
        /\ k = Len(b) \/ w < b[k + 1]

\* Number of emitted batches that hold the example whose text is t.
TimesEmitted(t) ==
    Cardinality({j \in DOMAIN b_out :
                    \E i \in DOMAIN b_out[j].batch[5] : b_out[j].batch[5][i] = t})

BatchesOfPass(batches, p) == SelectSeq(batches, LAMBDA rec : rec.epoch = p)

\* Number of batches of `batches` that hold the example whose text is t.
TimesIn(batches, t) ==
    Cardinality({j \in DOMAIN batches :
                    \E i \in DOMAIN batches[j].batch[5] : batches[j].batch[5][i] = t})

====
